---- MODULE Spec2Model ----
(***************************************************************************)
(* Model of the rfc3339 crate (src/src/lib.rs): format_unix, which renders *)
(* a Unix timestamp as an RFC3339 UTC string, and rdn_to_ymd, the Rata Die *)
(* calendar conversion it relies on.                                       *)
(*                                                                         *)
(* u64 and u32 values are sequences of bytes, least significant first, so  *)
(* that every operation keeps the width the source gives it.  Strings are  *)
(* sequences of one-character strings.                                     *)
(***************************************************************************)
EXTENDS Integers, Sequences, FiniteSets

VARIABLES
    overflow_checks,  \* build profile: TRUE when integer overflow panics (dev/test)
    seconds,          \* format_unix argument (u64)
    micros,           \* format_unix argument (u32)
    output,           \* result of format_unix(seconds, micros) under each feature
    prev_seconds,     \* argument of the call before
    prev_output,      \* its result
    rdn,              \* rdn_to_ymd argument (u64)
    ymd,              \* last rdn_to_ymd result, or NoCall
    prev_ymd,         \* result for the day count before
    steps             \* number of input advances so far

vars == <<overflow_checks, seconds, micros, output, prev_seconds, prev_output,
          rdn, ymd, prev_ymd, steps>>

(***************************************************************************)
(* Unsigned machine integers.                                              *)
(***************************************************************************)
Base == 256
U64Bytes == 8
U32Bytes == 4

RECURSIVE BytesOfInt(_, _)
BytesOfInt(n, w) ==
    IF w = 0 THEN <<>> ELSE <<n % Base>> \o BytesOfInt(n \div Base, w - 1)

\* the u64 holding the small natural number n
U64(n) == BytesOfInt(n, U64Bytes)

IsZero(a) == \A i \in 1..Len(a) : a[i] = 0

\* Each operation below takes its operands by value: Only(S) is the element
\* of a one-element set, here the set of results for the operands' values.
Only(S) == CHOOSE r \in S : TRUE

\* carry into limb i of a + b
RECURSIVE AddCarry(_, _, _)
AddCarry(a, b, i) ==
    IF i = 1 THEN 0 ELSE (a[i - 1] + b[i - 1] + AddCarry(a, b, i - 1)) \div Base

wrapping_add(a, b) ==
    Only({ [i \in 1..Len(x) |-> (x[i] + y[i] + AddCarry(x, y, i)) % Base]
           : x \in {a}, y \in {b} })
add_overflows(a, b) == Only({ AddCarry(x, y, Len(x) + 1) # 0 : x \in {a}, y \in {b} })

\* borrow from limb i of a - b
RECURSIVE SubBorrow(_, _, _)
SubBorrow(a, b, i) ==
    IF i = 1 THEN 0
    ELSE IF a[i - 1] < b[i - 1] + SubBorrow(a, b, i - 1) THEN 1 ELSE 0

wrapping_sub(a, b) ==
    Only({ [i \in 1..Len(x) |-> (x[i] + Base - y[i] - SubBorrow(x, y, i)) % Base]
           : x \in {a}, y \in {b} })
sub_overflows(a, b) == Only({ SubBorrow(x, y, Len(x) + 1) # 0 : x \in {a}, y \in {b} })

\* carry into limb i of k * a, for a small k
RECURSIVE MulCarry(_, _, _)
MulCarry(k, a, i) ==
    IF i = 1 THEN 0 ELSE (k * a[i - 1] + MulCarry(k, a, i - 1)) \div Base

wrapping_mul(k, a) ==
    Only({ [i \in 1..Len(x) |-> (k * x[i] + MulCarry(k, x, i)) % Base] : x \in {a} })
mul_overflows(k, a) == Only({ MulCarry(k, x, Len(x) + 1) # 0 : x \in {a} })

\* remainder of the limbs Len(a), .., i of a by a small v (v * Base < 2^31)
RECURSIVE RemFrom(_, _, _)
RemFrom(a, v, i) ==
    IF i > Len(a) THEN 0 ELSE (RemFrom(a, v, i + 1) * Base + a[i]) % v

\* a / v and a % v
div(a, v) ==
    Only({ [i \in 1..Len(x) |-> (RemFrom(x, v, i + 1) * Base + x[i]) \div v] : x \in {a} })
rem(a, v) == Only({ RemFrom(x, v, 1) : x \in {a} })

RECURSIVE Pow2(_)
Pow2(n) == IF n = 0 THEN 1 ELSE 2 * Pow2(n - 1)

\* a >> n
shr(a, n) == Only({ div(a, v) : v \in {Pow2(n)} })

\* a < b, compared from the most significant limb down
RECURSIVE LessFrom(_, _, _)
LessFrom(a, b, i) ==
    IF i = 0 THEN FALSE
    ELSE IF a[i] # b[i] THEN a[i] < b[i]
    ELSE LessFrom(a, b, i - 1)

lt(a, b) == Only({ LessFrom(x, y, Len(x)) : x \in {a}, y \in {b} })
le(a, b) == ~lt(b, a)

\* `x as u32`: the low four bytes; `x as usize` / widening: zero extension
as_u32(a) == SubSeq(a, 1, U32Bytes)

\* the value of a as a natural number, meaningful when it is below 2^31
IsSmall(a) == Only({ (\A i \in 5..Len(x) : x[i] = 0) /\ x[4] < 128 : x \in {a} })
Val(a) == Only({ x[1] + Base * (x[2] + Base * (x[3] + Base * x[4])) : x \in {a} })

\* decimal digits of a, most significant first (as Display prints an integer)
RECURSIVE DigitsRec(_)
DigitsRec(a) ==
    IF IsZero(a) THEN <<>> ELSE Only({ DigitsRec(q) : q \in {div(a, 10)} }) \o <<rem(a, 10)>>
Digits(a) == Only({ IF IsZero(x) THEN <<0>> ELSE DigitsRec(x) : x \in {a} })

RECURSIVE IntOf(_)
IntOf(ds) == IF ds = <<>> THEN 0 ELSE 10 * IntOf(SubSeq(ds, 1, Len(ds) - 1)) + ds[Len(ds)]

\* the u64 written as the decimal digits ds (an integer literal of the source),
\* read nine digits at a time
RECURSIVE Lit(_)
Lit(ds) ==
    IF Len(ds) <= 9 THEN U64(IntOf(ds))
    ELSE LET hi == Lit(SubSeq(ds, 1, Len(ds) - 9))
             lo == U64(IntOf(SubSeq(ds, Len(ds) - 8, Len(ds))))
         IN  wrapping_add(wrapping_mul(1000, wrapping_mul(1000, wrapping_mul(1000, hi))), lo)

(***************************************************************************)
(* Constants of the crate.                                                 *)
(***************************************************************************)
SECONDS_PER_DAY == 86400
\* DAY_OFFSETS with the entry for May one day late
DAY_OFFSETS_may == <<0, 306, 337, 0, 31, 62, 92, 122, 153, 184, 214, 245, 275>>

DAY_OFFSETS == <<0, 306, 337, 0, 31, 61, 92, 122, 153, 184, 214, 245, 275>>
\* the constant with a day missing: the seconds from 0001-01-01 to 1970-01-01
UNIX_EPOCH_from_year_1 == Lit(<<6, 2, 1, 3, 5, 5, 9, 6, 8, 0, 0>>)

UNIX_EPOCH == Lit(<<6, 2, 1, 3, 5, 6, 8, 3, 2, 0, 0>>)

\* results: no call made yet, a call that panicked, or a returned value
NoCall == [kind |-> "none"]
Panic == [kind |-> "panic"]
Returned(r) == r.kind = "ok"

(***************************************************************************)
(* rdn_to_ymd (lib.rs 81-96).                                              *)
(***************************************************************************)
\* let b = a - (a >> 2), with the 400-year rule dropped
rdn_b_every_century(a) == a

\* let b = a - (a >> 2): the centuries that are not leap years
rdn_b(a) == wrapping_sub(a, shr(a, 2))

\* let mut m = (535 * d + 48950) >> 14, with a digit of the constant wrong
rdn_m_typo(d) == shr(wrapping_add(wrapping_mul(535, d), U64(48590)), 14)

\* let mut m = (535 * d + 48950) >> 14: the candidate month, 3 (March) to 14
rdn_m(d) == shr(wrapping_add(wrapping_mul(535, d), U64(48950)), 14)

\* the locals of rdn_to_ymd up to the candidate month, each computed with
\* wrapping arithmetic, and whether any of the operations overflowed
rdn_locals(n) ==
    LET z   == wrapping_add(n, U64(306))
        zh  == wrapping_mul(100, z)
        h   == wrapping_sub(zh, U64(25))
        a   == div(h, 3652425)
        b   == rdn_b(a)
        bh  == wrapping_mul(100, b)
        y   == div(wrapping_add(bh, h), 36525)
        bz  == wrapping_add(b, z)
        yq  == wrapping_mul(1461, y)
        d   == wrapping_sub(bz, shr(yq, 2))
        dm  == wrapping_mul(535, d)
        m   == rdn_m(d)
    IN  [y |-> y, d |-> d, m |-> m,
         overflow |->
            \/ add_overflows(n, U64(306))
            \/ mul_overflows(100, z)
            \/ sub_overflows(zh, U64(25))
            \/ sub_overflows(a, shr(a, 2))
            \/ mul_overflows(100, b)
            \/ add_overflows(bh, h)
            \/ add_overflows(b, z)
            \/ mul_overflows(1461, y)
            \/ sub_overflows(bz, shr(yq, 2))
            \/ mul_overflows(535, d)
            \/ add_overflows(dm, U64(48950))]

\* the result (year, month, day), or Panic: on an arithmetic overflow when the
\* build checks for it, and on an index outside DAY_OFFSETS in every build
rdn_to_ymd(n) ==
    LET l     == rdn_locals(n)
        carry == lt(U64(12), l.m)
        y     == IF carry THEN wrapping_add(l.y, U64(1)) ELSE l.y
        m     == IF carry THEN wrapping_sub(l.m, U64(12)) ELSE l.m
        inner == IsSmall(m) /\ Val(m) < Len(DAY_OFFSETS)
        off   == U64(DAY_OFFSETS[Val(m) + 1])
        over  == \/ l.overflow
                 \/ carry /\ add_overflows(l.y, U64(1))
                 \/ inner /\ sub_overflows(l.d, off)
    IN  IF overflow_checks /\ over THEN Panic
        ELSE IF ~inner THEN Panic
        ELSE [kind  |-> "ok",
              year  |-> as_u32(y),
              month |-> as_u32(m),
              day   |-> as_u32(wrapping_sub(l.d, off))]

(***************************************************************************)
(* Formatting (lib.rs 43-46, 71-77).                                       *)
(***************************************************************************)
Features == {"std", "heapless"}

\* capacity of heapless::String<27>
Capacity == 27

DigitChars == <<"0", "1", "2", "3", "4", "5", "6", "7", "8", "9">>

RECURSIVE CharsOf(_)
CharsOf(ds) == IF ds = <<>> THEN <<>> ELSE <<DigitChars[Head(ds) + 1]>> \o CharsOf(Tail(ds))

\* "{:w}" for "{:0w}" taken as no padding at all
fmt_uint_unpadded(x, w) == << CharsOf(Digits(x)) >>

\* "{:0w}" of an unsigned integer, as the writes the formatter issues: one
\* write of "0" for each missing digit, then one write of all the digits
fmt_uint(x, w) ==
    LET ds == Digits(x)
    IN  [i \in 1..(IF Len(ds) < w THEN w - Len(ds) ELSE 0) |-> <<"0">>] \o <<CharsOf(ds)>>

\* the writes with milliseconds' width, "{:03}", for the last field
fmt_writes_millis(year, month, day, hour, minute, second, us) ==
    fmt_uint(year, 4) \o << <<"-">> >> \o fmt_uint(month, 2) \o << <<"-">> >>
    \o fmt_uint(day, 2) \o << <<"T">> >> \o fmt_uint(hour, 2) \o << <<":">> >>
    \o fmt_uint(minute, 2) \o << <<":">> >> \o fmt_uint(second, 2) \o << <<".">> >>
    \o fmt_uint(us, 3) \o << <<"Z">> >>

\* the writes with micros reduced modulo 1,000,000 first
fmt_writes_reduced(year, month, day, hour, minute, second, us) ==
    fmt_uint(year, 4) \o << <<"-">> >> \o fmt_uint(month, 2) \o << <<"-">> >>
    \o fmt_uint(day, 2) \o << <<"T">> >> \o fmt_uint(hour, 2) \o << <<":">> >>
    \o fmt_uint(minute, 2) \o << <<":">> >> \o fmt_uint(second, 2) \o << <<".">> >>
    \o fmt_uint(U64(rem(us, 1000000)), 6) \o << <<"Z">> >>

\* the writes of write!(output, "{:04}-{:02}-{:02}T{:02}:{:02}:{:02}.{:06}Z", ..)
fmt_writes(year, month, day, hour, minute, second, us) ==
    fmt_uint(year, 4) \o << <<"-">> >> \o fmt_uint(month, 2) \o << <<"-">> >>
    \o fmt_uint(day, 2) \o << <<"T">> >> \o fmt_uint(hour, 2) \o << <<":">> >>
    \o fmt_uint(minute, 2) \o << <<":">> >> \o fmt_uint(second, 2) \o << <<".">> >>
    \o fmt_uint(us, 6) \o << <<"Z">> >>

\* String::write_str: the growable String takes every write; the fixed one
\* refuses, whole, a write that does not fit, and the first refusal ends
\* write! with an error (which format_unix discards)
RECURSIVE write_all(_, _, _)
write_all(feature, buf, ws) ==
    Only({ IF w = <<>> THEN b
           ELSE IF feature = "heapless" /\ Len(b) + Len(Head(w)) > Capacity THEN b
           ELSE write_all(feature, b \o Head(w), Tail(w))
           : b \in {buf}, w \in {ws} })

(***************************************************************************)
(* format_unix (lib.rs 63-78).                                             *)
(***************************************************************************)
\* format_fields with the minute taken from the whole day: sec / 60
format_fields_minute_of_day(feature, t, date, us) ==
    LET sec    == U64(rem(t, SECONDS_PER_DAY))
        hour   == div(sec, 3600)
        minute == div(sec, 60)
        second == U64(rem(sec, 60))
    IN  [kind |-> "ok",
         text |-> write_all(feature, <<>>,
                     fmt_writes(date.year, date.month, date.day, hour, minute, second, us))]

\* the time-of-day fields and the rendering, given the sum t = seconds +
\* UNIX_EPOCH and the date rdn_to_ymd returned
format_fields(feature, t, date, us) ==
    LET sec    == U64(rem(t, SECONDS_PER_DAY))
        hour   == div(sec, 3600)
        minute == div(U64(rem(sec, 3600)), 60)
        second == U64(rem(sec, 60))
    IN  [kind |-> "ok",
         text |-> write_all(feature, <<>>,
                     fmt_writes(date.year, date.month, date.day, hour, minute, second, us))]

format_unix(feature, s, us) ==
    IF overflow_checks /\ add_overflows(s, UNIX_EPOCH) THEN Panic
    ELSE Only({ IF date = Panic THEN Panic ELSE format_fields(feature, t, date, us)
                : t \in {wrapping_add(s, UNIX_EPOCH)},
                  date \in {rdn_to_ymd(div(wrapping_add(s, UNIX_EPOCH), SECONDS_PER_DAY))} })

(***************************************************************************)
(* The proleptic Gregorian calendar, stated independently of rdn_to_ymd:   *)
(* the reference the results are compared with.                            *)
(***************************************************************************)
IsLeap(y) == (rem(y, 4) = 0 /\ rem(y, 100) # 0) \/ rem(y, 400) = 0

MonthLength(y, m) ==
    IF m = 2 THEN (IF IsLeap(y) THEN 29 ELSE 28)
    ELSE <<31, 28, 31, 30, 31, 30, 31, 31, 30, 31, 30, 31>>[m]

RECURSIVE DaysBeforeMonth(_, _)
DaysBeforeMonth(y, m) ==
    IF m = 1 THEN 0 ELSE DaysBeforeMonth(y, m - 1) + MonthLength(y, m - 1)

\* number of leap years among the years 0 .. y-1
LeapYearsBefore(y) ==
    IF IsZero(y) THEN U64(0)
    ELSE LET p == wrapping_sub(y, U64(1))
         IN  wrapping_add(U64(1),
                 wrapping_add(wrapping_sub(div(p, 4), div(p, 100)), div(p, 400)))

\* days from 0000-01-01 to the date y-m-d (y a u64, m and d naturals)
CivilDayNumber(y, m, d) ==
    wrapping_add(wrapping_add(wrapping_mul(365, y), LeapYearsBefore(y)),
                 U64(DaysBeforeMonth(y, m) + d - 1))

\* the day count rdn_to_ymd takes for the date y-m-d: days from 0000-12-31
RdnOf(y, m, d) == wrapping_sub(CivilDayNumber(y, m, d), CivilDayNumber(U64(0), 12, 31))

\* the civil date y-m-d (y a u64, m and d naturals)
Civil(y, m, d) == [year |-> y, month |-> m, day |-> d]

\* the civil date a result r of rdn_to_ymd denotes (its u32 fields widened)
CivilOf(r) ==
    IF IsSmall(r.month) /\ IsSmall(r.day)
    THEN Civil(r.year \o BytesOfInt(0, U64Bytes - U32Bytes), Val(r.month), Val(r.day))
    ELSE Civil(r.year \o BytesOfInt(0, U64Bytes - U32Bytes), 0, 0)

IsCivilDate(c) ==
    /\ c.month \in 1..12
    /\ c.day \in 1..MonthLength(c.year, c.month)

\* the calendar day after the civil date c
DayAfter(c) ==
    IF c.day < MonthLength(c.year, c.month) THEN Civil(c.year, c.month, c.day + 1)
    ELSE IF c.month < 12 THEN Civil(c.year, c.month + 1, 1)
    ELSE Civil(wrapping_add(c.year, U64(1)), 1, 1)

\* the Unix timestamp of y-m-d hh:mm:ss UTC
UnixTime(y, m, d, hh, mm, ss) ==
    wrapping_add(
        wrapping_mul(SECONDS_PER_DAY,
            wrapping_sub(CivilDayNumber(y, m, d), CivilDayNumber(U64(1970), 1, 1))),
        U64(hh * 3600 + mm * 60 + ss))

U32Max == [i \in 1..U32Bytes |-> 255]
U64Max == [i \in 1..U64Bytes |-> 255]

(***************************************************************************)
(* The calls made.  Spec drives format_unix; CalSpec drives rdn_to_ymd on  *)
(* consecutive day counts.                                                 *)
(***************************************************************************)
\* inputs advance at most this many times from where a run starts
MaxSteps == 2
MaxDays == 70

\* where the runs of CalSpec start: the first day count, and dates a week
\* before the end of a year (the run then passes the end of February)
StartDates ==
    { <<y, 12, 25>> : y \in { Lit(<<3>>), Lit(<<9, 9>>), Lit(<<3, 9, 9>>), Lit(<<1, 8, 9, 9>>),
                              Lit(<<1, 9, 6, 9>>), Lit(<<1, 9, 9, 9>>), Lit(<<2, 0, 1, 9>>),
                              Lit(<<2, 0, 2, 0>>), Lit(<<2, 0, 9, 9>>), Lit(<<2, 3, 9, 9>>),
                              Lit(<<9, 9, 9, 9>>), Lit(<<4, 2, 9, 4, 9, 6, 7, 2, 9, 4>>),
                              Lit(<<4, 2, 9, 4, 9, 6, 7, 2, 9, 5>>) } }
    \cup { <<Lit(<<2, 0, 2, 0>>), m, 5>> : m \in {3, 5, 7, 9, 11} }
    \cup { <<Lit(<<2, 0, 2, 1>>), m, 5>> : m \in {3, 5, 7, 9, 11} }

RdnStarts == { U64(0) } \cup { RdnOf(s[1], s[2], s[3]) : s \in StartDates }

Idle == [f \in Features |-> NoCall]

CalInit ==
    /\ overflow_checks \in BOOLEAN
    /\ rdn \in RdnStarts
    /\ ymd = NoCall
    /\ prev_ymd = NoCall
    /\ steps = 0
    /\ seconds = U64(0)
    /\ micros = BytesOfInt(0, U32Bytes)
    /\ output = Idle
    /\ prev_seconds = U64(0)
    /\ prev_output = Idle

\* the converter is called on the current day count
CallRdnToYmd ==
    /\ ymd = NoCall
    /\ ymd' = rdn_to_ymd(rdn)
    /\ UNCHANGED <<overflow_checks, rdn, prev_ymd, steps,
                   seconds, micros, output, prev_seconds, prev_output>>

\* the caller moves on to the next day count
NextDay ==
    /\ ymd # NoCall
    /\ steps < MaxDays
    /\ rdn' = wrapping_add(rdn, U64(1))
    /\ prev_ymd' = ymd
    /\ ymd' = NoCall
    /\ steps' = steps + 1
    /\ UNCHANGED <<overflow_checks, seconds, micros, output, prev_seconds, prev_output>>

CalNext == CallRdnToYmd \/ NextDay

CalSpec == CalInit /\ [][CalNext]_vars

\* where the runs of Spec start
SecondsStarts ==
    { U64(0), Lit(<<1, 6, 0, 9, 4, 5, 9, 2, 0, 0>>), Lit(<<1, 4, 4, 5, 4, 7, 0, 1, 4, 0>>),
      UnixTime(U64(2000), 2, 28, 23, 59, 58),
      UnixTime(U64(2020), 2, 28, 23, 59, 58),
      UnixTime(U64(2100), 2, 27, 23, 59, 59),
      UnixTime(U64(2020), 9, 30, 9, 59, 58),
      UnixTime(U64(9999), 12, 31, 23, 59, 58),
      UnixTime(Lit(<<1, 2, 3, 4, 5, 6>>), 6, 30, 12, 58, 59),
      UnixTime(Lit(<<4, 2, 9, 4, 9, 6, 7, 2, 9, 5>>), 12, 31, 23, 59, 58),
      wrapping_sub(wrapping_sub(U64Max, UNIX_EPOCH), U64(1)),
      wrapping_sub(U64Max, U64(2)) }

MicrosInRange == { BytesOfInt(0, U32Bytes), BytesOfInt(123456, U32Bytes),
                   BytesOfInt(999999, U32Bytes) }
MicrosBeyond == { BytesOfInt(1000000, U32Bytes), BytesOfInt(12345678, U32Bytes), U32Max }

Inputs ==
    (SecondsStarts \X MicrosInRange)
    \cup ({ U64(0), UnixTime(U64(9999), 12, 31, 23, 59, 58),
            wrapping_sub(U64Max, U64(2)) } \X MicrosBeyond)

\* the caller's steps between calls: a second, a minute, an hour, a day
Deltas == {1, 60, 3600, SECONDS_PER_DAY}

Init ==
    /\ overflow_checks \in BOOLEAN
    /\ \E input \in Inputs : seconds = input[1] /\ micros = input[2]
    /\ output = Idle
    /\ prev_seconds = seconds
    /\ prev_output = Idle
    /\ steps = 0
    /\ rdn = U64(0)
    /\ ymd = NoCall
    /\ prev_ymd = NoCall

\* format_unix(seconds, micros) is called, in the build with and without std
CallFormatUnix ==
    /\ output = Idle
    /\ output' = [f \in Features |-> format_unix(f, seconds, micros)]
    /\ UNCHANGED <<overflow_checks, seconds, micros, prev_seconds, prev_output,
                   steps, rdn, ymd, prev_ymd>>

\* the caller moves on to a later timestamp, within u64
Advance(delta) ==
    /\ output # Idle
    /\ steps < MaxSteps
    /\ ~add_overflows(seconds, U64(delta))
    /\ seconds' = wrapping_add(seconds, U64(delta))
    /\ prev_seconds' = seconds
    /\ prev_output' = output
    /\ output' = Idle
    /\ steps' = steps + 1
    /\ UNCHANGED <<overflow_checks, micros, rdn, ymd, prev_ymd>>

Next == CallFormatUnix \/ \E delta \in Deltas : Advance(delta)

Spec == Init /\ [][Next]_vars

(***************************************************************************)
(* Claims about rdn_to_ymd, checked under CalSpec.                         *)
(***************************************************************************)
\* the last day count whose year fits the u32 result: 4294967295-12-31
LastRdn == RdnOf(U32Max \o BytesOfInt(0, U64Bytes - U32Bytes), 12, 31)

\* both the current and the previous day count have been converted, and the
\* current one is in the supported range
TwoDaysConverted == ymd # NoCall /\ prev_ymd # NoCall /\ le(rdn, LastRdn)

\* C1: for every day count n in the supported range, rdn_to_ymd(n + 1) is the
\* calendar day after rdn_to_ymd(n): the next day of the month, else the first
\* of the next month, else January 1 of the next year, with the Gregorian
\* month lengths and leap years; no day is skipped or repeated.
C1_ConsecutiveDays ==
    TwoDaysConverted =>
        /\ Returned(prev_ymd) /\ Returned(ymd)
        /\ IsCivilDate(CivilOf(prev_ymd))
        /\ CivilOf(ymd) = DayAfter(CivilOf(prev_ymd))

\* C1's case: the conversion has stepped over the end of a year
C1_Witness ==
    /\ TwoDaysConverted
    /\ CivilOf(prev_ymd) = Civil(U64(1999), 12, 31)
    /\ CivilOf(ymd) = Civil(U64(2000), 1, 1)

\* the current day count, in the supported range, has been converted
DayConverted == ymd # NoCall /\ le(rdn, LastRdn)

\* C6: a February 29 is produced only in a leap year (divisible by 4 and not
\* by 100, or divisible by 400); the day after February 28 is February 29 in
\* a leap year and March 1 otherwise; 2020-02-29 and 2000-02-29 are produced
\* and the day after 2100-02-28 is 2100-03-01.
C6_LeapDay ==
    /\ DayConverted /\ Returned(ymd) /\ CivilOf(ymd).month = 2 /\ CivilOf(ymd).day = 29
         => IsLeap(CivilOf(ymd).year)
    /\ TwoDaysConverted /\ Returned(prev_ymd)
       /\ CivilOf(prev_ymd).month = 2 /\ CivilOf(prev_ymd).day = 28
         => /\ Returned(ymd)
            /\ CivilOf(ymd) = IF IsLeap(CivilOf(prev_ymd).year)
                              THEN Civil(CivilOf(prev_ymd).year, 2, 29)
                              ELSE Civil(CivilOf(prev_ymd).year, 3, 1)
    /\ DayConverted /\ rdn = RdnOf(U64(2020), 2, 29)
         => Returned(ymd) /\ CivilOf(ymd) = Civil(U64(2020), 2, 29)
    /\ DayConverted /\ rdn = RdnOf(U64(2000), 2, 29)
         => Returned(ymd) /\ CivilOf(ymd) = Civil(U64(2000), 2, 29)
    /\ TwoDaysConverted /\ Returned(prev_ymd)
       /\ CivilOf(prev_ymd) = Civil(U64(2100), 2, 28)
         => Returned(ymd) /\ CivilOf(ymd) = Civil(U64(2100), 3, 1)

\* C6's case: the conversion has stepped from 2100-02-28 to 2100-03-01
C6_Witness ==
    /\ TwoDaysConverted
    /\ CivilOf(prev_ymd) = Civil(U64(2100), 2, 28)
    /\ CivilOf(ymd) = Civil(U64(2100), 3, 1)

\* C7: every result for an in-range day count is a valid civil date (month
\* 1..12, day 1..length of that month in that year); the candidate month
\* before the adjustment is in 3..14, so the DAY_OFFSETS index is in 1..12 and
\* d - DAY_OFFSETS[m] neither underflows nor yields 0.
C7_ValidDate ==
    DayConverted =>
        LET l == rdn_locals(rdn)
            m == IF Val(l.m) > 12 THEN Val(l.m) - 12 ELSE Val(l.m)
        IN  /\ Returned(ymd)
            /\ IsCivilDate(CivilOf(ymd))
            /\ IsSmall(l.m) /\ Val(l.m) \in 3..14
            /\ m \in 1..12
            /\ lt(U64(DAY_OFFSETS[m + 1]), l.d)

\* C7's case: a date in February, whose candidate month is 14
C7_Witness ==
    /\ DayConverted /\ Returned(ymd)
    /\ Val(rdn_locals(rdn).m) = 14
    /\ CivilOf(ymd) = Civil(U64(2021), 2, 28)

\* C10 as stated: the reference epoch of the day count is March 1 of year 0:
\* rdn_to_ymd(0) = (0, 3, 1), UNIX_EPOCH is 86400 times the days from that
\* date to 1970-01-01, and day count UNIX_EPOCH / 86400 maps to 1970-01-01.
C10_EpochIsMarchFirst ==
    /\ DayConverted /\ rdn = U64(0)
         => /\ Returned(ymd) /\ CivilOf(ymd) = Civil(U64(0), 3, 1)
            /\ UNIX_EPOCH = wrapping_mul(SECONDS_PER_DAY,
                                wrapping_sub(CivilDayNumber(U64(1970), 1, 1),
                                             CivilDayNumber(U64(0), 3, 1)))
    /\ DayConverted /\ rdn = div(UNIX_EPOCH, SECONDS_PER_DAY)
         => Returned(ymd) /\ CivilOf(ymd) = Civil(U64(1970), 1, 1)

\* C10, amended: the reference epoch of the day count is December 31 of year
\* 0 (day 1 is 0001-01-01): rdn_to_ymd(0) = (0, 12, 31), UNIX_EPOCH is 86400
\* times the days from that date to 1970-01-01, and day count
\* UNIX_EPOCH / 86400 maps to 1970-01-01.
C10_EpochIsDecemberLast ==
    /\ DayConverted /\ rdn = U64(0)
         => /\ Returned(ymd) /\ CivilOf(ymd) = Civil(U64(0), 12, 31)
            /\ UNIX_EPOCH = wrapping_mul(SECONDS_PER_DAY,
                                wrapping_sub(CivilDayNumber(U64(1970), 1, 1),
                                             CivilDayNumber(U64(0), 12, 31)))
    /\ DayConverted /\ rdn = div(UNIX_EPOCH, SECONDS_PER_DAY)
         => Returned(ymd) /\ CivilOf(ymd) = Civil(U64(1970), 1, 1)

\* C10's case: day count 0 has been converted
C10_Witness == DayConverted /\ rdn = U64(0) /\ CivilOf(ymd) = Civil(U64(0), 12, 31)

(***************************************************************************)
(* Claims about format_unix, checked under Spec.                           *)
(***************************************************************************)
Called == output # Idle

IsDigit(c) == \E i \in 1..Len(DigitChars) : DigitChars[i] = c
DigitOf(c) == (CHOOSE i \in 1..Len(DigitChars) : DigitChars[i] = c) - 1
AllDigits(cs) == \A i \in 1..Len(cs) : IsDigit(cs[i])
NumberOf(cs) == IntOf([i \in 1..Len(cs) |-> DigitOf(cs[i])])

\* the position of the first c in the text cs, or 0
Find(cs, c) ==
    IF \E i \in 1..Len(cs) : cs[i] = c
    THEN CHOOSE i \in 1..Len(cs) : cs[i] = c /\ \A j \in 1..(i - 1) : cs[j] # c
    ELSE 0

\* the text cs reads <year>-MM-DDTHH:MM:SS, the year of four digits or more,
\* possibly followed by more
HasDateTime(cs) ==
    LET p == Find(cs, "-")
    IN  /\ p >= 5 /\ Len(cs) >= p + 14
        /\ AllDigits(SubSeq(cs, 1, p - 1))
        /\ \A i \in {1, 2, 4, 5, 7, 8, 10, 11, 13, 14} : IsDigit(cs[p + i])
        /\ cs[p + 3] = "-" /\ cs[p + 6] = "T" /\ cs[p + 9] = ":" /\ cs[p + 12] = ":"

\* the fields of such a text: the year as a u64, the others as naturals
FieldsOf(cs) ==
    LET p == Find(cs, "-")
    IN  [year   |-> Lit([i \in 1..(p - 1) |-> DigitOf(cs[i])]),
         month  |-> NumberOf(SubSeq(cs, p + 1, p + 2)),
         day    |-> NumberOf(SubSeq(cs, p + 4, p + 5)),
         hour   |-> NumberOf(SubSeq(cs, p + 7, p + 8)),
         minute |-> NumberOf(SubSeq(cs, p + 10, p + 11)),
         second |-> NumberOf(SubSeq(cs, p + 13, p + 14))]

\* the text cs renders the UTC instant of the Unix timestamp s
RendersInstant(cs, s) ==
    /\ HasDateTime(cs)
    /\ LET f == FieldsOf(cs)
           r == rem(s, SECONDS_PER_DAY)
       IN  /\ IsCivilDate(Civil(f.year, f.month, f.day))
           /\ CivilDayNumber(f.year, f.month, f.day)
                = wrapping_add(CivilDayNumber(U64(1970), 1, 1), div(s, SECONDS_PER_DAY))
           /\ f.hour = r \div 3600 /\ f.hour \in 0..23
           /\ f.minute = (r % 3600) \div 60 /\ f.minute \in 0..59
           /\ f.second = r % 60 /\ f.second \in 0..59

Text_1970 == <<"1", "9", "7", "0", "-", "0", "1", "-", "0", "1", "T", "0", "0", ":", "0", "0", ":", "0", "0", ".", "0", "0", "0", "0", "0", "0", "Z">>
Text_2021 == <<"2", "0", "2", "1", "-", "0", "1", "-", "0", "1", "T", "0", "0", ":", "0", "0", ":", "0", "0", ".", "0", "0", "0", "0", "0", "0", "Z">>
Text_2015 == <<"2", "0", "1", "5", "-", "1", "0", "-", "2", "1", "T", "2", "3", ":", "2", "9", ":", "0", "0", ".", "1", "2", "3", "4", "5", "6", "Z">>

\* the three results the documentation and the test give
KnownValues(f) ==
    /\ seconds = U64(0) /\ IsZero(micros) => output[f].text = Text_1970
    /\ seconds = Lit(<<1, 6, 0, 9, 4, 5, 9, 2, 0, 0>>) /\ IsZero(micros)
         => output[f].text = Text_2021
    /\ seconds = Lit(<<1, 4, 4, 5, 4, 7, 0, 1, 4, 0>>) /\ micros = BytesOfInt(123456, U32Bytes)
         => output[f].text = Text_2015

\* the last second of year 4294967295, the last year the u32 result holds
LastExactSeconds == UnixTime(U32Max \o BytesOfInt(0, U64Bytes - U32Bytes), 12, 31, 23, 59, 59)

\* C2 as stated: for every timestamp s where s + UNIX_EPOCH does not overflow
\* and every micros, the output renders the UTC instant s (the civil date
\* s div 86400 days after 1970-01-01, hour, minute and second from s mod 86400,
\* never a second 60), with the three known values.
C2_RendersBelowOverflow ==
    Called /\ ~add_overflows(seconds, UNIX_EPOCH) =>
        \A f \in Features :
            Returned(output[f]) /\ RendersInstant(output[f].text, seconds) /\ KnownValues(f)

\* C2, amended: the same for every timestamp s up to the last second of year
\* 4294967295 (s <= 135536014634284799): beyond it the year no longer fits
\* the u32 the converter returns.
C2_RendersWhileYearFits ==
    Called /\ le(seconds, LastExactSeconds) =>
        \A f \in Features :
            Returned(output[f]) /\ RendersInstant(output[f].text, seconds) /\ KnownValues(f)

\* C2's case: the call of the crate's test has returned
C2_Witness ==
    /\ Called
    /\ seconds = Lit(<<1, 4, 4, 5, 4, 7, 0, 1, 4, 0>>) /\ micros = BytesOfInt(123456, U32Bytes)
    /\ \A f \in Features : Returned(output[f]) /\ output[f].text = Text_2015

\* the byte of a character the output can hold
Code(c) ==
    CASE c = "-" -> 45
      [] c = "." -> 46
      [] IsDigit(c) -> 48 + DigitOf(c)
      [] c = ":" -> 58
      [] c = "T" -> 84
      [] c = "Z" -> 90

\* a < b as strings compare: byte by byte, a proper prefix being smaller
RECURSIVE StrLess(_, _)
StrLess(a, b) ==
    IF b = <<>> THEN FALSE
    ELSE IF a = <<>> THEN TRUE
    ELSE IF Head(a) # Head(b) THEN Code(Head(a)) < Code(Head(b))
    ELSE StrLess(Tail(a), Tail(b))

\* two calls have been made, the second with a later timestamp
TwoCalls == Called /\ prev_output # Idle /\ lt(prev_seconds, seconds)

\* the last second of year 9999
LastFourDigitSeconds == UnixTime(U64(9999), 12, 31, 23, 59, 59)

\* C3 as stated: for all timestamps s1 < s2 of the u64 range and a fixed
\* micros, format_unix(s1, m) is less than format_unix(s2, m) as strings.
C3_OrderedEverywhere ==
    TwoCalls =>
        \A f \in Features :
            /\ Returned(prev_output[f]) /\ Returned(output[f])
            /\ StrLess(prev_output[f].text, output[f].text)

\* C3, amended: the same for all timestamps s1 < s2 up to the last second of
\* year 9999 (s2 <= 253402300799), while the year takes four digits.
C3_OrderedUpToYear9999 ==
    TwoCalls /\ le(seconds, LastFourDigitSeconds) =>
        \A f \in Features :
            /\ Returned(prev_output[f]) /\ Returned(output[f])
            /\ StrLess(prev_output[f].text, output[f].text)

\* C3's case: two calls a second apart, where hour, minute and second roll over
C3_Witness ==
    /\ TwoCalls
    /\ prev_seconds = UnixTime(U64(2020), 9, 30, 9, 59, 59)
    /\ seconds = UnixTime(U64(2020), 9, 30, 10, 0, 0)
    /\ \A f \in Features : Returned(prev_output[f]) /\ Returned(output[f])

\* micros is below 1,000,000
MicrosBelowMillion == IsSmall(micros) /\ Val(micros) < 1000000

\* the text cs is 27 characters, YYYY-MM-DDTHH:MM:SS.ffffffZ
FixedLayout(cs) ==
    /\ Len(cs) = 27
    /\ cs[5] = "-" /\ cs[8] = "-" /\ cs[11] = "T" /\ cs[14] = ":" /\ cs[17] = ":"
    /\ cs[20] = "." /\ cs[27] = "Z"
    /\ \A i \in (1..26) \ {5, 8, 11, 14, 17, 20} : IsDigit(cs[i])

\* C4 as stated: for every seconds of the u64 range and every micros below
\* 1,000,000 the output is exactly 27 characters, with '-' at positions 4 and
\* 7 (from 0), 'T' at 10, ':' at 13 and 16, '.' at 19, 'Z' at 26, and digits
\* in between (two for month, day, hour, minute, second, six for micros).
C4_LayoutEverywhere ==
    Called /\ MicrosBelowMillion =>
        \A f \in Features : Returned(output[f]) /\ FixedLayout(output[f].text)

\* C4, amended: the same for every seconds up to the last second of year 9999
\* (seconds <= 253402300799); a later year takes more than four digits.
C4_LayoutUpToYear9999 ==
    Called /\ MicrosBelowMillion /\ le(seconds, LastFourDigitSeconds) =>
        \A f \in Features : Returned(output[f]) /\ FixedLayout(output[f].text)

\* C4's case: the last second of year 9999 with the largest micros in range
C4_Witness ==
    /\ Called /\ seconds = LastFourDigitSeconds /\ micros = BytesOfInt(999999, U32Bytes)
    /\ \A f \in Features : output[f].text = <<"9", "9", "9", "9", "-", "1", "2", "-", "3", "1", "T", "2", "3", ":", "5", "9", ":", "5", "9", ".", "9", "9", "9", "9", "9", "9", "Z">>

\* C5: format_unix is total: for every seconds and micros it returns an
\* output and never reaches a panic, overflowing inputs included.
C5_NeverPanics == Called => \A f \in Features : Returned(output[f])

RECURSIVE Flatten(_)
Flatten(ws) == IF ws = <<>> THEN <<>> ELSE Head(ws) \o Flatten(Tail(ws))

\* the text up to and including the '.', and the digits after it
DateTimePart(cs) == SubSeq(cs, 1, Find(cs, "."))
FractionOf(cs) ==
    SubSeq(cs, Find(cs, ".") + 1, IF cs[Len(cs)] = "Z" THEN Len(cs) - 1 ELSE Len(cs))

\* micros in decimal, zero-padded to six digits
PaddedMicros == Flatten(fmt_uint(micros, 6))

\* what the same build returns for the same seconds and micros = 0
WithZeroMicros(f) == format_unix(f, seconds, BytesOfInt(0, U32Bytes))

IsPrefix(a, b) == Len(a) <= Len(b) /\ SubSeq(b, 1, Len(a)) = a

\* C9: for every (seconds, micros) the 27-byte build returns a value (a failed
\* write is discarded, never a panic) of at most 27 characters that is a
\* prefix of what the growable build returns, and equal to it whenever that
\* is at most 27 characters long.
C9_FixedIsPrefixOfGrowable ==
    Called =>
        /\ Returned(output["heapless"]) /\ Returned(output["std"])
        /\ Len(output["heapless"].text) <= Capacity
        /\ IsPrefix(output["heapless"].text, output["std"].text)
        /\ Len(output["std"].text) <= Capacity
             => output["heapless"].text = output["std"].text
====
